---- MODULE Spec2Model ----
(***************************************************************************)
(* Batch scripts of game-data-collector-primitive:                         *)
(*   playoff-logs/fetch_playoff_logs.py   (script = "playoff")             *)
(*   fetch_game_logs.py                   (script = "gamelogs")            *)
(*   supabase-upload/nba_player_upload.py (script = "upload")              *)
(*   supabase-upload/simplified_nba_upload.py (script = "simplified")      *)
(*   player-bios/fetch_player_bio.py      (script = "bio")                 *)
(* Text is modelled as sequences of one-character strings, times are in    *)
(* tenths of a second.                                                     *)
(***************************************************************************)
EXTENDS Integers, Sequences, FiniteSets, TLC

VARIABLES
    script,      \* which script this run executes
    pc,          \* position of the main routine
    rosterFile,  \* lines of the roster file (playoff, gamelogs)
    seasons,     \* parse_roster_txt's dict, in insertion order: <<[key, players]>>
    queue,       \* filtered_seasons / target_seasons / the bio script's names
    si,          \* index in queue of the season being processed
    tasks,       \* futures of the current thread pool, in submission order
    fs,          \* output directory: path -> content of the file
    writers,     \* path -> the tasks that wrote it (history)
    failLog,     \* lines written to fail_log in this run
    submitted,   \* every (season, player) task submitted so far (history)
    processed,   \* the seasons whose pool was opened, in order (history)
    results,     \* what fut.result() gave main, in completion order (history)
    report,      \* per-season failure report printed by fetch_game_logs.py
    \* uploader scripts
    playersFile, \* lines of players.txt
    names,       \* player_names
    run,         \* number of this run of the script (1 = first)
    idx,         \* loop index i of main, 1-based
    startIndex,  \* start_index, 1-based
    curName,     \* the local player_name: [set, name]
    curId,       \* the local player_id
    call,        \* the _make_api_request call in progress
    cache,       \* fetcher.all_players_cache: [filled, rows]
    dirLog,      \* directory fetches completed in this run: filled or not (history)
    lookups,     \* how each name lookup of this run got its list (history)
    processedPlayers, \* processed_players
    successCount,
    failCount,
    counted,     \* indexes counted in fail_count, in any run (history)
    resumeFile,  \* nba_progress.json: [exists, last_player, processed]
    aborts,      \* runs that were aborted and at which index (history)
    db,          \* the remote tables: table name -> rows, in insertion order
    lastStore,   \* the last successful store call: its table, its row and the rows
                 \* of that player_id the table held before it (history)
    clock,       \* what datetime.now() returns; it advances from one run to the next
    lastRequest  \* the fetcher's last HTTP request: [any, slept], the time slept since

poolVars == <<rosterFile, seasons, queue, si, tasks, fs, writers,
              failLog, submitted, processed, results, report>>

upVars == <<playersFile, names, run, idx, startIndex, curName, curId, call, cache, dirLog,
            lookups, processedPlayers, successCount, failCount, counted, resumeFile, aborts,
            db, lastStore, clock, lastRequest>>

vars == <<script, pc, poolVars, upVars>>

----------------------------------------------------------------------------
(* Bounds *)
MaxLines == 3
MaxWorkers == 2

\* Python None where a text is expected / where a player id is expected
None == <<"None">>
NoId == "None"

----------------------------------------------------------------------------
(* Generic helpers *)
RECURSIVE SeqsUpTo(_, _)
SeqsUpTo(S, n) ==
    IF n = 0 THEN {<<>>}
    ELSE LET shorter == SeqsUpTo(S, n - 1)
         IN  shorter \cup {Append(s, x) : s \in {t \in shorter : Len(t) = n - 1}, x \in S}

Range(s) == {s[i] : i \in 1..Len(s)}

Digit == {"0", "1", "2", "3", "4", "5", "6", "7", "8", "9"}

DigitVal(c) ==
    CASE c = "0" -> 0 [] c = "1" -> 1 [] c = "2" -> 2 [] c = "3" -> 3 [] c = "4" -> 4
      [] c = "5" -> 5 [] c = "6" -> 6 [] c = "7" -> 7 [] c = "8" -> 8 [] c = "9" -> 9

DigitChar(d) == <<"0", "1", "2", "3", "4", "5", "6", "7", "8", "9">>[d + 1]

\* int(text): [ok, val]; ok = FALSE stands for ValueError
RECURSIVE DigitsValue(_)
DigitsValue(t) ==
    IF t = <<>> THEN 0
    ELSE 10 * DigitsValue(SubSeq(t, 1, Len(t) - 1)) + DigitVal(t[Len(t)])

ParseInt(t) ==
    IF t # <<>> /\ \A i \in 1..Len(t) : t[i] \in Digit
    THEN [ok |-> TRUE, val |-> DigitsValue(t)]
    ELSE [ok |-> FALSE, val |-> 0]

\* str(n) for n >= 0
RECURSIVE IntToStr(_)
IntToStr(n) ==
    IF n < 10 THEN <<DigitChar(n)>>
    ELSE Append(IntToStr(n \div 10), DigitChar(n % 10))

\* text.split('-')[0]
RECURSIVE SplitDashFirst(_)
SplitDashFirst(t) ==
    IF t = <<>> \/ t[1] = "-" THEN <<>>
    ELSE <<t[1]>> \o SplitDashFirst(Tail(t))

\* text[-2:]
LastTwo(t) == IF Len(t) <= 2 THEN t ELSE SubSeq(t, Len(t) - 1, Len(t))

\* f"{year}-{str(year+1)[-2:]}"
SeasonStr(year) == IntToStr(year) \o <<"-">> \o LastTwo(IntToStr(year + 1))

----------------------------------------------------------------------------
(* slugify *)
AlNum == Digit \cup {"b", "e", "z"}

\* NFKD + encode('ascii', 'ignore'): an accented letter keeps its base letter
AsciiFold(c) == IF c = "é" THEN "e" ELSE c

\* re.sub(r"[^A-Za-z0-9]+", "_", text)
RECURSIVE SubNonAlnum(_, _)
SubNonAlnum(t, inRun) ==
    IF t = <<>> THEN <<>>
    ELSE IF t[1] \in AlNum THEN <<t[1]>> \o SubNonAlnum(Tail(t), FALSE)
    ELSE IF inRun THEN SubNonAlnum(Tail(t), TRUE)
    ELSE <<"_">> \o SubNonAlnum(Tail(t), TRUE)

RECURSIVE StripLeft(_, _)
StripLeft(t, c) == IF t # <<>> /\ t[1] = c THEN StripLeft(Tail(t), c) ELSE t

RECURSIVE StripRight(_, _)
StripRight(t, c) ==
    IF t # <<>> /\ t[Len(t)] = c THEN StripRight(SubSeq(t, 1, Len(t) - 1), c) ELSE t

Strip(t, c) == StripRight(StripLeft(t, c), c)

slugify(name) == Strip(SubNonAlnum([i \in 1..Len(name) |-> AsciiFold(name[i])], FALSE), "_")

----------------------------------------------------------------------------
(* Roster file.  A line is a sequence of characters; the literal prefix    *)
(* "Season:" is one token.                                                 *)
HeaderLine(text) == <<"Season:", " ">> \o text

NameBe    == <<"b", "e">>
NameBeDot == <<"b", "é", ".">>
NameZ     == <<"z">>
RosterNames == {NameBe, NameBeDot, NameZ}

SeparatorLine == <<"=", "=">>
BadHeader == <<"x">>
LongHeader == IntToStr(2015) \o <<"-">> \o IntToStr(2016)

PlayoffHeaders ==
    {SeasonStr(2024), SeasonStr(2015), LongHeader, SeasonStr(2014), SeasonStr(2025), BadHeader}
GameLogHeaders == {SeasonStr(2022), SeasonStr(2010), SeasonStr(2023), SeasonStr(2009), LongHeader}

RosterLines(headers) ==
    {HeaderLine(h) : h \in headers} \cup RosterNames \cup {SeparatorLine}

\* str.strip()
StripWs(t) == Strip(t, " ")

StartsWith(t, c) == t # <<>> /\ t[1] = c

\* ln.split("Season:")[1]
RECURSIVE UpToSeasonToken(_)
UpToSeasonToken(t) ==
    IF t = <<>> \/ t[1] = "Season:" THEN <<>>
    ELSE <<t[1]>> \o UpToSeasonToken(Tail(t))

AfterSeasonToken(ln) == UpToSeasonToken(Tail(ln))

Keys(dict) == {dict[i].key : i \in 1..Len(dict)}
Lookup(dict, k) == dict[CHOOSE i \in 1..Len(dict) : dict[i].key = k].players

\* seasons[k] = []
SetEmpty(dict, k) ==
    IF k \in Keys(dict)
    THEN [i \in 1..Len(dict) |-> IF dict[i].key = k THEN [key |-> k, players |-> <<>>] ELSE dict[i]]
    ELSE Append(dict, [key |-> k, players |-> <<>>])

\* seasons[k].append(ln)
AppendTo(dict, k, ln) ==
    [i \in 1..Len(dict) |->
        IF dict[i].key = k THEN [key |-> k, players |-> Append(dict[i].players, ln)] ELSE dict[i]]

\* One iteration of the parse loop; st = [dict, current]; truthy tells
\* whether the code tests `current` for truth or for `is None`
ParseLine(st, raw, truthy) ==
    LET ln == StripWs(raw) IN
    IF StartsWith(ln, "Season:")
    THEN LET cur == StripWs(AfterSeasonToken(ln))
         IN  [dict |-> SetEmpty(st.dict, cur), current |-> cur]
    ELSE IF ln # <<>> /\ ~StartsWith(ln, "=")
              /\ st.current # None /\ (truthy => st.current # <<>>)
    THEN [dict |-> AppendTo(st.dict, st.current, ln), current |-> st.current]
    ELSE st

RECURSIVE ParseLines(_, _, _)
ParseLines(st, lines, truthy) ==
    IF lines = <<>> THEN st
    ELSE ParseLines(ParseLine(st, lines[1], truthy), Tail(lines), truthy)

\* fetch_playoff_logs.parse_roster_txt
parse_roster_txt_playoff(lines) ==
    ParseLines([dict |-> <<>>, current |-> None], lines, TRUE).dict

\* fetch_game_logs.parse_roster_txt
parse_roster_txt_gamelogs(lines) ==
    ParseLines([dict |-> <<>>, current |-> None], lines, FALSE).dict

----------------------------------------------------------------------------
(* nba_player_upload.py and simplified_nba_upload.py: NBADataFetcher *)

Uploaders == {"upload", "simplified"}

\* NBADataFetcher(rate_limit_wait=1.5, max_retries=3) and
\* NBADataFetcher(rate_limit_wait=1.2, max_retries=3), in tenths of a second
RateLimitWaitUpload == 15
RateLimitWaitSimplified == 12
max_retries == 3
\* max(10, backoff * 2)
RateLimitedFloor == 100
\* if (i + 1) % 5 == 0
SaveEvery == 5

rate_limit_wait(sc) == IF sc = "upload" THEN RateLimitWaitUpload ELSE RateLimitWaitSimplified

Max(a, b) == IF a >= b THEN a ELSE b

IdleCall ==
    [st |-> "idle", ep |-> "", skip |-> FALSE, retries |-> 0, backoff |-> 0, pre |-> 0,
     post |-> 0, waits |-> <<>>, attempts |-> 0, last |-> "", result |-> "none"]

\* _make_api_request up to the first pass of the while loop: retries = 0,
\* backoff = rate_limit_wait, and (nba_player_upload.py only) the sleep
\* before the first request
BeginCall(sc, ep, skip) ==
    [st |-> "loop", ep |-> ep, skip |-> skip, retries |-> 0, backoff |-> rate_limit_wait(sc),
     pre |-> (IF sc = "upload" THEN rate_limit_wait(sc) ELSE 0),
     post |-> 0, waits |-> <<>>, attempts |-> 0, last |-> "", result |-> "none"]

\* Mutant: the call returns without its result
Return_Nothing(c, res) == [c EXCEPT !.st = "ret", !.result = "none"]

\* return res
Return(c, res) == [c EXCEPT !.st = "ret", !.result = res]

\* What one requests.get can give: a 200 with rows, a 200 without rows, a
\* 3xx (seen only with allow_redirects=False), 429, 500, or an exception
\* without a response (time-out, connection error)
HttpOutcomes(sc) ==
    IF sc = "upload" THEN {"rows", "empty", "redirect", "s429", "s500", "noresp"}
    ELSE {"rows", "empty", "s429", "s500", "noresp"}

Status(out) ==
    CASE out = "s429" -> 429
      [] out = "s500" -> 500
      [] out = "redirect" -> 302
      [] out = "noresp" -> 0
      [] OTHER -> 200

HasResponse(out) == out # "noresp"

\* `hasattr(e, 'response') and e.response`: the truth value of a
\* requests.Response is its .ok, False for every 4xx and 5xx status
ResponseTruthy(out) == HasResponse(out) /\ Status(out) < 400

\* Mutant: the loop condition allows one pass too many
LoopContinues_OneMore(c) == c.retries <= max_retries + 1

\* while retries <= self.max_retries
LoopContinues(c) == c.retries <= max_retries

\* The `except RequestException` branch
ExceptBranch(sc, c, out) ==
    LET c1 == [c EXCEPT !.retries = @ + 1]
        limited == ResponseTruthy(out) /\ Status(out) = 429
        giveUp == /\ sc = "upload"
                  /\ ResponseTruthy(out) /\ ~limited
                  /\ Status(out) = 500 /\ c.skip /\ c1.retries > 0
        b1 == IF limited THEN Max(RateLimitedFloor, c.backoff * 2) ELSE c.backoff
        b2 == IF sc = "upload" THEN b1 * 2
              ELSE IF limited THEN b1 ELSE c.backoff * 2
    IN  IF giveUp THEN Return(c1, "none")
        ELSE IF c1.retries <= max_retries
             THEN [c1 EXCEPT !.backoff = b2, !.waits = Append(@, b2)]
             ELSE Return([c1 EXCEPT !.backoff = b2], "none")

\* The redirect branch of nba_player_upload.py, then the loop condition
RedirectBranch(c) ==
    LET c1 == [c EXCEPT !.retries = @ + 1, !.waits = Append(@, c.backoff),
                        !.backoff = @ * 2]
    IN  IF LoopContinues(c1) THEN c1 ELSE Return(c1, "none")

\* One pass of the while loop of _make_api_request
AfterHttp(sc, c, out) ==
    LET h == [c EXCEPT !.attempts = @ + 1, !.last = out] IN
    IF sc = "upload"
    THEN IF HasResponse(out) /\ Status(out) = 500 /\ c.skip /\ c.retries > 0
         THEN Return(h, "none")
         ELSE IF ~HasResponse(out) \/ Status(out) >= 400 THEN ExceptBranch(sc, h, out)
         ELSE IF Status(out) >= 300 THEN RedirectBranch(h)
         ELSE Return(h, out)
    ELSE IF ~HasResponse(out) \/ Status(out) >= 400 THEN ExceptBranch(sc, h, out)
         ELSE Return([h EXCEPT !.post = rate_limit_wait(sc)], out)

\* No request made yet by this fetcher
NoRequest == [any |-> FALSE, slept |-> 0]

\* The time slept in one pass of the while loop after its request: the
\* time.sleep(backoff) before a retry, or simplified_nba_upload.py's
\* time.sleep(rate_limit_wait) after a success; c is the call before the
\* pass and d after it
SleptInPass(c, d) ==
    (IF Len(d.waits) > Len(c.waits) THEN d.waits[Len(d.waits)] ELSE 0) + d.post

\* The directory the commonallplayers endpoint returns; names are word lists
Directory ==
    <<[PERSON_ID |-> "p1", DISPLAY_FIRST_LAST |-> <<"al", "b">>,
       DISPLAY_LAST_COMMA_FIRST |-> <<"b,", "al">>]>>

EmptyCache == [filled |-> FALSE, rows |-> <<>>]

\* Mutant: the cached list is never used
CacheHit_Never(c) == FALSE

\* if self.all_players_cache is not None and not force_refresh
CacheHit(c) == c.filled

\* fetch_all_players after the request: the cache after it
CacheAfter(c, res) == IF res = "rows" THEN [filled |-> TRUE, rows |-> Directory] ELSE c

\* search_player_by_name on a non-empty list: exact match, then the first
\* partial match
search_player_by_name(rows, name) ==
    LET exact == {k \in 1..Len(rows) :
                    name = rows[k].DISPLAY_FIRST_LAST \/ name = rows[k].DISPLAY_LAST_COMMA_FIRST}
        partial == {k \in 1..Len(rows) : Range(name) \subseteq Range(rows[k].DISPLAY_FIRST_LAST)}
        first(S) == CHOOSE k \in S : \A j \in S : k <= j
    IN  IF exact # {} THEN rows[first(exact)].PERSON_ID
        ELSE IF partial # {} THEN rows[first(partial)].PERSON_ID
        ELSE NoId

\* load_player_names: stripped non-empty lines
RECURSIVE load_player_names(_)
load_player_names(lines) ==
    IF lines = <<>> THEN <<>>
    ELSE (IF lines[1] # <<>> THEN <<lines[1]>> ELSE <<>>) \o load_player_names(Tail(lines))

\* player_names.index(x), 1-based
IndexOf(s, x) == CHOOSE k \in 1..Len(s) : s[k] = x /\ \A j \in 1..(k - 1) : s[j] # x

NoResume == [exists |-> FALSE, last_player |-> <<>>, processed |-> <<>>]

\* start_index of main (1-based) from the resumption file
ResumeIndex(file, ns) ==
    IF file.exists /\ file.last_player # <<>> /\ file.last_player \in Range(ns)
    THEN IndexOf(ns, file.last_player) + 1
    ELSE 1

----------------------------------------------------------------------------
(* nba_player_upload.py and simplified_nba_upload.py: SupabaseUploader *)

Tables == {"nba_players", "player_current_stats", "player_career_stats", "player_season_highs"}

EmptyDb == [t \in Tables |-> <<>>]

\* CURRENT_SEASON = "2024-25"
CURRENT_SEASON == SeasonStr(2024)

\* Mutant: the row is inserted, whatever the table holds
Upsert_Insert(rows, row) == Append(rows, row)

\* client.table(t).upsert(row, on_conflict="player_id").execute(): the row
\* with this player_id is replaced, a new player_id gets a new row
Upsert(rows, row) ==
    IF \E k \in 1..Len(rows) : rows[k].player_id = row.player_id
    THEN [k \in 1..Len(rows) |-> IF rows[k].player_id = row.player_id THEN row ELSE rows[k]]
    ELSE Append(rows, row)

\* formatted_data of store_player_basic_info; simplified_nba_upload.py adds
\* the headshot URL
FormatBasicInfo(sc, player_data, now) ==
    [player_id |-> player_data.PERSON_ID, fields |-> player_data.fields,
     headshot_url |-> (IF sc = "simplified" THEN <<"headshot", player_data.PERSON_ID>> ELSE <<>>),
     updated_at |-> now]

\* formatted_data of store_player_current_stats and store_player_season_highs
FormatSeasonStats(player_id, data, now) ==
    [player_id |-> player_id, season |-> CURRENT_SEASON, fields |-> data, updated_at |-> now]

\* formatted_data of store_player_career_stats
FormatCareerStats(player_id, data, now) ==
    [player_id |-> player_id, fields |-> data, updated_at |-> now]

NoStore == [table |-> "", row |-> <<>>, had |-> <<>>]

\* rows[k] for the k with rows[k].player_id = id, in order
RECURSIVE RowsOf(_, _)
RowsOf(rows, id) ==
    IF rows = <<>> THEN <<>>
    ELSE (IF rows[1].player_id = id THEN <<rows[1]>> ELSE <<>>) \o RowsOf(Tail(rows), id)

\* A store_* call: the upsert is executed (ok) or raises / reports an error
\* and the table stays as it was; st = [db, last]
StoreRow(st, table, row, ok) ==
    IF ok
    THEN [db |-> [st.db EXCEPT ![table] = Upsert(@, row)],
          last |-> [table |-> table, row |-> row, had |-> RowsOf(st.db[table], row.player_id)]]
    ELSE st

store_player_basic_info(st, sc, player_data, now, ok) ==
    StoreRow(st, "nba_players", FormatBasicInfo(sc, player_data, now), ok)

store_player_current_stats(st, player_id, stats_data, now, ok) ==
    StoreRow(st, "player_current_stats", FormatSeasonStats(player_id, stats_data, now), ok)

store_player_career_stats(st, player_id, career_data, now, ok) ==
    StoreRow(st, "player_career_stats", FormatCareerStats(player_id, career_data, now), ok)

store_player_season_highs(st, player_id, highs_data, now, ok) ==
    StoreRow(st, "player_season_highs", FormatSeasonStats(player_id, highs_data, now), ok)

\* What the stats endpoints return for a player: the player and the data
ApiData(id, ep) == <<ep, id>>
\* dict(zip(headers, row_data)) of fetch_player_info
PlayerInfo(id) == [PERSON_ID |-> id, fields |-> ApiData(id, "info")]

----------------------------------------------------------------------------
(* nba_player_upload.py and simplified_nba_upload.py: main *)

MaxPlayers == 2
MaxRuns == 2

PlayerAlB == <<"al", "b">>
PlayerAl  == <<"al">>
PlayerZed == <<"zed">>
BlankLine == <<>>
PlayersLines == {PlayerAlB, PlayerAl, PlayerZed, BlankLine}

NoName == [set |-> FALSE, name |-> <<>>]

\* datetime.now().isoformat()
Now == clock

\* db and lastStore after a store call
Stored(st) == db' = st.db /\ lastStore' = st.last
DbState == [db |-> db, last |-> lastStore]

\* Parts of main's loop body that several steps share ----------------------

\* fail_count += 1; continue
FailPlayer ==
    /\ failCount' = failCount + 1
    /\ counted' = counted \cup {idx}
    /\ idx' = idx + 1
    /\ pc' = "loop"
    /\ call' = IdleCall
    /\ UNCHANGED <<curId, processedPlayers, successCount, resumeFile>>

\* after search_player_by_name returned id: fetch_player_info or failure
AfterSearch(id) ==
    IF id = NoId THEN FailPlayer
    ELSE /\ curId' = id
         /\ call' = BeginCall(script, "info", FALSE)
         /\ pc' = "info"
         /\ UNCHANGED <<failCount, counted, idx, processedPlayers, successCount, resumeFile>>

\* main up to the preload: read players.txt, construct the fetcher, call
\* fetch_all_players (the cache of a new fetcher is None)
UpStart ==
    /\ script \in Uploaders /\ pc = "start"
    /\ IF run = 1
       THEN playersFile' \in SeqsUpTo(PlayersLines, MaxPlayers)
       ELSE playersFile' = playersFile
    /\ names' = load_player_names(playersFile')
    /\ IF names' = <<>>
       THEN pc' = "done" /\ call' = IdleCall
       ELSE pc' = "preload" /\ call' = BeginCall(script, "directory", FALSE)
    /\ UNCHANGED <<script, poolVars, lastRequest, db, lastStore, clock, run, idx, startIndex, curName, curId, cache,
                   dirLog, lookups, processedPlayers, successCount, failCount, counted,
                   resumeFile, aborts>>

\* one requests.get of _make_api_request and the rest of that loop pass
HttpAttempt ==
    /\ script \in Uploaders /\ call.st = "loop"
    /\ \E out \in HttpOutcomes(script) : call' = AfterHttp(script, call, out)
    /\ lastRequest' = [any |-> TRUE, slept |-> SleptInPass(call, call')]
    /\ UNCHANGED <<script, pc, poolVars, db, lastStore, clock, playersFile, names, run, idx, startIndex, curName,
                   curId, cache, dirLog, lookups, processedPlayers, successCount, failCount,
                   counted, resumeFile, aborts>>

\* the preload returned: nba_player_upload.py then reads the resumption file
UpAfterPreload ==
    /\ script \in Uploaders /\ pc = "preload" /\ call.st = "ret"
    /\ cache' = CacheAfter(cache, call.result)
    /\ dirLog' = Append(dirLog, call.result = "rows")
    /\ call' = IdleCall
    /\ IF script = "upload"
       THEN /\ processedPlayers' = (IF resumeFile.exists THEN resumeFile.processed ELSE <<>>)
            /\ startIndex' = ResumeIndex(resumeFile, names)
       ELSE /\ processedPlayers' = <<>>
            /\ startIndex' = 1
    /\ idx' = startIndex'
    /\ successCount' = 0 /\ failCount' = 0
    /\ pc' = "loop"
    /\ UNCHANGED <<script, poolVars, lastRequest, db, lastStore, clock, playersFile, names, run, curName, curId, lookups, counted,
                   resumeFile, aborts>>

\* top of the for loop down to the name lookup
UpLoopHead ==
    /\ script \in Uploaders /\ pc = "loop"
    /\ IF idx > Len(names)
       THEN /\ pc' = (IF script = "upload" THEN "summary" ELSE "done")
            /\ UNCHANGED <<curName, curId, call, cache, dirLog, lookups, processedPlayers,
                           successCount, failCount, counted, resumeFile, idx>>
       ELSE /\ curName' = [set |-> TRUE, name |-> names[idx]]
            /\ IF /\ script = "upload"
                  /\ \E k \in 1..Len(processedPlayers) : processedPlayers[k].name = names[idx]
               THEN /\ successCount' = successCount + 1
                    /\ idx' = idx + 1
                    /\ pc' = "loop"
                    /\ UNCHANGED <<curId, call, cache, dirLog, lookups, processedPlayers,
                                   failCount, counted, resumeFile>>
               ELSE IF CacheHit(cache)
               THEN /\ lookups' = Append(lookups, "cache")
                    /\ AfterSearch(search_player_by_name(cache.rows, names[idx]))
                    /\ UNCHANGED <<cache, dirLog>>
               ELSE /\ lookups' = Append(lookups, "fetch")
                    /\ call' = BeginCall(script, "directory", FALSE)
                    /\ pc' = "search"
                    /\ UNCHANGED <<curId, cache, dirLog, processedPlayers, successCount,
                                   failCount, counted, resumeFile, idx>>
    /\ UNCHANGED <<script, poolVars, lastRequest, db, lastStore, clock, playersFile, names, run, startIndex, aborts>>

\* search_player_by_name after its own fetch_all_players returned
UpAfterSearchFetch ==
    /\ script \in Uploaders /\ pc = "search" /\ call.st = "ret"
    /\ cache' = CacheAfter(cache, call.result)
    /\ dirLog' = Append(dirLog, call.result = "rows")
    /\ IF call.result = "rows"
       THEN AfterSearch(search_player_by_name(cache'.rows, curName.name))
       ELSE FailPlayer
    /\ UNCHANGED <<script, poolVars, lastRequest, db, lastStore, clock, playersFile, names, run, startIndex, curName, lookups,
                   aborts>>

\* fetch_player_info returned: store_player_basic_info, then the next fetch
UpAfterInfo ==
    /\ script \in Uploaders /\ pc = "info" /\ call.st = "ret"
    /\ \E stored \in BOOLEAN :
         IF call.result # "rows"
         THEN FailPlayer /\ UNCHANGED <<db, lastStore>>
         ELSE IF ~stored
         THEN /\ FailPlayer
              /\ Stored(store_player_basic_info(DbState, script, PlayerInfo(curId), Now, FALSE))
         ELSE /\ Stored(store_player_basic_info(DbState, script, PlayerInfo(curId), Now, TRUE))
              /\ IF script = "upload"
                 THEN call' = BeginCall(script, "stats", TRUE) /\ pc' = "stats"
                 ELSE call' = BeginCall(script, "career", FALSE) /\ pc' = "career"
              /\ UNCHANGED <<curId, failCount, counted, idx, processedPlayers, successCount,
                             resumeFile>>
    /\ UNCHANGED <<script, poolVars, lastRequest, clock, playersFile, names, run, startIndex, curName, cache,
                   dirLog, lookups, aborts>>

\* fetch_player_stats returned (nba_player_upload.py): the stats are stored
\* when there are any
UpAfterStats ==
    /\ script = "upload" /\ pc = "stats" /\ call.st = "ret"
    /\ IF call.result = "rows"
       THEN \E ok \in BOOLEAN :
              Stored(store_player_current_stats(DbState, curId, ApiData(curId, "stats"), Now, ok))
       ELSE UNCHANGED <<db, lastStore>>
    /\ call' = BeginCall(script, "career", FALSE)
    /\ pc' = "career"
    /\ UNCHANGED <<script, poolVars, lastRequest, clock, playersFile, names, run, idx, startIndex, curName, curId,
                   cache, dirLog, lookups, processedPlayers, successCount, failCount, counted,
                   resumeFile, aborts>>

\* fetch_player_career_stats returned
UpAfterCareer ==
    /\ script \in Uploaders /\ pc = "career" /\ call.st = "ret"
    /\ IF call.result = "rows"
       THEN \E ok \in BOOLEAN :
              Stored(store_player_career_stats(DbState, curId, ApiData(curId, "career"), Now, ok))
       ELSE UNCHANGED <<db, lastStore>>
    /\ IF script = "upload"
       THEN /\ call' = BeginCall(script, "highs", FALSE)
            /\ pc' = "highs"
            /\ UNCHANGED <<idx, successCount>>
       ELSE /\ call' = IdleCall
            /\ successCount' = successCount + 1
            /\ idx' = idx + 1
            /\ pc' = "loop"
    /\ UNCHANGED <<script, poolVars, lastRequest, clock, playersFile, names, run, startIndex, curName, curId,
                   cache, dirLog, lookups, processedPlayers, failCount, counted, resumeFile,
                   aborts>>

\* fetch_player_season_highs returned: the player is processed, the
\* resumption file is rewritten every fifth index
UpAfterHighs ==
    /\ script = "upload" /\ pc = "highs" /\ call.st = "ret"
    /\ IF call.result = "rows"
       THEN \E ok \in BOOLEAN :
              Stored(store_player_season_highs(DbState, curId, ApiData(curId, "highs"), Now, ok))
       ELSE UNCHANGED <<db, lastStore>>
    /\ processedPlayers' = Append(processedPlayers, [name |-> curName.name, id |-> curId])
    /\ successCount' = successCount + 1
    /\ resumeFile' = IF idx % SaveEvery = 0
                     THEN [exists |-> TRUE, last_player |-> curName.name,
                           processed |-> processedPlayers']
                     ELSE resumeFile
    /\ call' = IdleCall
    /\ idx' = idx + 1
    /\ pc' = "loop"
    /\ UNCHANGED <<script, poolVars, lastRequest, clock, playersFile, names, run, startIndex, curName, curId,
                   cache, dirLog, lookups, failCount, counted, aborts>>

InLoop == pc \in {"loop", "search", "info", "stats", "career", "highs"}

\* what the two handlers write as 'last_player'
SavedLastPlayer(cn) == IF cn.set THEN cn.name ELSE <<>>

\* KeyboardInterrupt or another exception inside the try block: progress is
\* saved; the interrupt falls through to the summary, the exception is
\* raised again
UpAbort(kind) ==
    /\ script = "upload" /\ InLoop
    /\ resumeFile' = [exists |-> TRUE, last_player |-> SavedLastPlayer(curName),
                      processed |-> processedPlayers]
    /\ aborts' = Append(aborts, [run |-> run, idx |-> idx, during |-> pc, kind |-> kind])
    /\ call' = IdleCall
    /\ pc' = (IF kind = "interrupt" THEN "summary" ELSE "crashed")
    /\ UNCHANGED <<script, poolVars, lastRequest, db, lastStore, clock, playersFile, names, run, idx, startIndex, curName, curId,
                   cache, dirLog, lookups, processedPlayers, successCount, failCount, counted>>

\* summary, processed_players.json, removal of the resumption file
UpSummary ==
    /\ script = "upload" /\ pc = "summary"
    /\ resumeFile' = IF successCount + failCount >= Len(names) - (startIndex - 1)
                     THEN NoResume ELSE resumeFile
    /\ pc' = "done"
    /\ UNCHANGED <<script, poolVars, lastRequest, db, lastStore, clock, playersFile, names, run, idx, startIndex, curName, curId,
                   call, cache, dirLog, lookups, processedPlayers, successCount, failCount,
                   counted, aborts>>

\* the script is started again with the same players.txt; only the files
\* survive
UpRerun ==
    /\ script = "upload" /\ pc \in {"done", "crashed"} /\ names # <<>>
    /\ run < MaxRuns
    /\ run' = run + 1
    /\ clock' = clock + 1
    /\ lastRequest' = NoRequest
    /\ pc' = "start"
    /\ names' = <<>> /\ idx' = 1 /\ startIndex' = 1 /\ curName' = NoName /\ curId' = NoId
    /\ call' = IdleCall /\ cache' = EmptyCache /\ dirLog' = <<>> /\ lookups' = <<>>
    /\ processedPlayers' = <<>> /\ successCount' = 0 /\ failCount' = 0
    /\ UNCHANGED <<script, poolVars, db, lastStore, playersFile, counted, resumeFile, aborts>>

UpIdle ==
    /\ playersFile = <<>> /\ names = <<>> /\ run = 1 /\ idx = 1 /\ startIndex = 1
    /\ curName = NoName /\ curId = NoId /\ call = IdleCall /\ cache = EmptyCache
    /\ dirLog = <<>> /\ lookups = <<>> /\ processedPlayers = <<>>
    /\ successCount = 0 /\ failCount = 0 /\ counted = {} /\ resumeFile = NoResume
    /\ aborts = <<>> /\ db = EmptyDb /\ lastStore = NoStore /\ clock = 1
    /\ lastRequest = NoRequest

PoolIdle ==
    /\ rosterFile = <<>> /\ seasons = <<>> /\ queue = <<>> /\ si = 1 /\ tasks = <<>>
    /\ fs = <<>> /\ writers = <<>> /\ failLog = <<>> /\ submitted = <<>>
    /\ processed = <<>> /\ results = <<>> /\ report = <<>>

InitUpload ==
    /\ script \in Uploaders
    /\ pc = "start"
    /\ PoolIdle
    /\ playersFile = <<>>
    /\ names = <<>> /\ run = 1 /\ idx = 1 /\ startIndex = 1
    /\ curName = NoName /\ curId = NoId /\ call = IdleCall /\ cache = EmptyCache
    /\ dirLog = <<>> /\ lookups = <<>> /\ processedPlayers = <<>>
    /\ successCount = 0 /\ failCount = 0 /\ counted = {} /\ resumeFile = NoResume
    /\ aborts = <<>> /\ db = EmptyDb /\ lastStore = NoStore /\ clock = 1
    /\ lastRequest = NoRequest

RunUpload ==
    \/ UpStart
    \/ HttpAttempt
    \/ UpAfterPreload
    \/ UpLoopHead
    \/ UpAfterSearchFetch
    \/ UpAfterInfo
    \/ UpAfterStats
    \/ UpAfterCareer
    \/ UpAfterHighs
    \/ UpSummary

\* one run of an uploader script
NextUpload ==
    \/ RunUpload
    \/ \E kind \in {"interrupt", "exception"} : UpAbort(kind)

SpecUpload == InitUpload /\ [][NextUpload]_vars

\* runs of nba_player_upload.py one after the other on the same players.txt
NextResume ==
    \/ NextUpload
    \/ UpRerun

SpecResume == InitUpload /\ [][NextResume]_vars

\* The SupabaseUploader methods called in any order with any record; the
\* clock advances with every call
MaxStores == 3
StoreIds == {"p1", "p2"}
StoreData == {"a", "b"}

StoreStep ==
    /\ script \in Uploaders /\ pc = "store" /\ clock <= MaxStores
    /\ clock' = clock + 1
    /\ UNCHANGED <<script, pc, poolVars, lastRequest, playersFile, names, run, idx, startIndex, curName, curId,
                   call, cache, dirLog, lookups, processedPlayers, successCount, failCount,
                   counted, resumeFile, aborts>>

StoreBasicInfo ==
    /\ StoreStep
    /\ \E id \in StoreIds, data \in StoreData, ok \in BOOLEAN :
         Stored(store_player_basic_info(DbState, script, [PERSON_ID |-> id, fields |-> data],
                                          Now, ok))

StoreCurrentStats ==
    /\ StoreStep /\ script = "upload"
    /\ \E id \in StoreIds, data \in StoreData, ok \in BOOLEAN :
         Stored(store_player_current_stats(DbState, id, data, Now, ok))

StoreCareerStats ==
    /\ StoreStep
    /\ \E id \in StoreIds, data \in StoreData, ok \in BOOLEAN :
         Stored(store_player_career_stats(DbState, id, data, Now, ok))

StoreSeasonHighs ==
    /\ StoreStep /\ script = "upload"
    /\ \E id \in StoreIds, data \in StoreData, ok \in BOOLEAN :
         Stored(store_player_season_highs(DbState, id, data, Now, ok))

InitStore ==
    /\ script \in Uploaders
    /\ pc = "store"
    /\ PoolIdle
    /\ UpIdle

NextStore ==
    \/ StoreBasicInfo
    \/ StoreCurrentStats
    \/ StoreCareerStats
    \/ StoreSeasonHighs

SpecStore == InitStore /\ [][NextStore]_vars

----------------------------------------------------------------------------
(* nba_api static player table and playergamelog outcomes *)

\* find_player_id: the id of the exact or first hit, NoId without a hit
find_player_id(name) ==
    CASE name = NameBe -> "p1"
      [] name = NameBeDot -> "p2"
      [] OTHER -> NoId

\* What one PlayerGameLog request can do
Outcomes == {"ok", "empty", "timeout", "error"}

\* time.sleep(60) before the retry of fetch_and_save
RetrySleep == 600

CsvPath(season, name) == <<season, slugify(name)>>

NewTask(name, season) ==
    [name |-> name, season |-> season, st |-> "queued", attempt |-> 0,
     hist |-> <<>>, waits |-> <<>>, ok |-> FALSE, status |-> "", collected |-> FALSE]

Finish(t, ok, status) == [t EXCEPT !.st = "done", !.ok = ok, !.status = status]

Running(ts) == {i \in 1..Len(ts) : ts[i].st \notin {"queued", "done"}}

\* ThreadPoolExecutor: a queued task starts when a worker is free, in
\* submission order
CanStart(ts, i) ==
    /\ ts[i].st = "queued"
    /\ Cardinality(Running(ts)) < MaxWorkers
    /\ \A j \in 1..(i - 1) : ts[j].st # "queued"

WriteFile(dir, path, content) == [p \in DOMAIN dir \cup {path} |-> IF p = path THEN content ELSE dir[p]]

AddWriter(w, path, id) ==
    [p \in DOMAIN w \cup {path} |-> IF p = path THEN (IF p \in DOMAIN w THEN w[p] ELSE {}) \cup {id} ELSE w[p]]

----------------------------------------------------------------------------
(* fetch_playoff_logs.py *)

StartYear(season) == ParseInt(SplitDashFirst(season))

\* Mutant: the upper limit of the season filter is off by one
InPlayoffRange_Upper(season) ==
    LET y == StartYear(season) IN y.ok /\ 2015 <= y.val /\ y.val <= 2025

\* 2015 <= year <= 2024, ValueError skipped
InPlayoffRange(season) ==
    LET y == StartYear(season) IN y.ok /\ 2015 <= y.val /\ y.val <= 2024

\* filtered_seasons before the sort, in dict order
RECURSIVE FilterPlayoff(_)
FilterPlayoff(s) ==
    IF s = <<>> THEN <<>>
    ELSE (IF InPlayoffRange(s[1]) THEN <<s[1]>> ELSE <<>>) \o FilterPlayoff(Tail(s))

\* list.sort(key=start year, reverse=True): stable insertion into a
\* descending list
RECURSIVE InsertDesc(_, _)
InsertDesc(sorted, x) ==
    IF sorted = <<>> THEN <<x>>
    ELSE IF StartYear(sorted[1]).val >= StartYear(x).val
         THEN <<sorted[1]>> \o InsertDesc(Tail(sorted), x)
         ELSE <<x>> \o sorted

RECURSIVE SortDesc(_)
SortDesc(s) ==
    IF s = <<>> THEN <<>>
    ELSE InsertDesc(SortDesc(SubSeq(s, 1, Len(s) - 1)), s[Len(s)])

KeySeq(dict) == [i \in 1..Len(dict) |-> dict[i].key]

filtered_seasons(dict) == SortDesc(FilterPlayoff(KeySeq(dict)))

\* main, lines 118-138: read and parse the roster, filter and sort the seasons
PlayoffStart ==
    /\ script = "playoff" /\ pc = "start"
    /\ rosterFile' \in SeqsUpTo(RosterLines(PlayoffHeaders), MaxLines)
    /\ seasons' = parse_roster_txt_playoff(rosterFile')
    /\ queue' = filtered_seasons(seasons')
    /\ si' = 1
    /\ pc' = "season"
    /\ UNCHANGED <<upVars, script, tasks, fs, writers, failLog, submitted, processed,
                   results, report>>

\* main, lines 141-161: next season, submit one task per roster name
PlayoffSubmit ==
    /\ script = "playoff" /\ pc = "season" /\ si <= Len(queue)
    /\ LET season == queue[si]
           roster == Lookup(seasons, season)
       IN  /\ tasks' = [i \in 1..Len(roster) |-> NewTask(roster[i], season)]
           /\ submitted' = submitted \o [i \in 1..Len(roster) |-> <<season, roster[i]>>]
           /\ processed' = Append(processed, season)
    /\ pc' = "collect"
    /\ UNCHANGED <<upVars, script, rosterFile, seasons, queue, si, fs, writers, failLog, results,
                   report>>

\* fetch_and_save, lines 68-77: existence check, polite sleep, id lookup
PlayoffTaskStart(i) ==
    /\ script = "playoff" /\ pc = "collect"
    /\ CanStart(tasks, i)
    /\ LET t == tasks[i]
           path == CsvPath(t.season, t.name)
       IN  tasks' = [tasks EXCEPT ![i] =
             IF path \in DOMAIN fs THEN Finish(t, TRUE, "already")
             ELSE IF find_player_id(t.name) = NoId THEN Finish(t, FALSE, "no_id")
             ELSE [t EXCEPT !.st = "req", !.attempt = 1]]
    /\ UNCHANGED <<upVars, script, pc, rosterFile, seasons, queue, si, fs, writers, failLog,
                   submitted, processed, results, report>>

\* Mutant: any exception of the first attempt is retried, not only a time-out
AfterAttempt_RetryError(t, out) ==
    LET u == [t EXCEPT !.hist = Append(@, out)] IN
    CASE out = "ok" -> Finish(u, TRUE, "ok")
      [] out = "empty" -> Finish(u, FALSE, "empty")
      [] out \in {"timeout", "error"} ->
            IF t.attempt = 1
            THEN [u EXCEPT !.attempt = 2, !.waits = Append(@, RetrySleep)]
            ELSE Finish(u, FALSE, out)

\* Mutant: after the second time-out the retry loop starts over
AfterAttempt_RetryForever(t, out) ==
    LET u == [t EXCEPT !.hist = Append(@, out)] IN
    CASE out = "ok" -> Finish(u, TRUE, "ok")
      [] out = "empty" -> Finish(u, FALSE, "empty")
      [] out = "timeout" ->
            IF t.attempt = 1
            THEN [u EXCEPT !.attempt = 2, !.waits = Append(@, RetrySleep)]
            ELSE [t EXCEPT !.attempt = 1, !.hist = <<>>, !.waits = <<>>]
      [] OTHER -> Finish(u, FALSE, "error")

\* What fetch_and_save does with the outcome of attempt t.attempt
AfterAttempt(t, out) ==
    LET u == [t EXCEPT !.hist = Append(@, out)] IN
    CASE out = "ok" -> Finish(u, TRUE, "ok")
      [] out = "empty" -> Finish(u, FALSE, "empty")
      [] out = "timeout" ->
            IF t.attempt = 1
            THEN [u EXCEPT !.attempt = 2, !.waits = Append(@, RetrySleep)]
            ELSE Finish(u, FALSE, "timeout")
      [] OTHER -> Finish(u, FALSE, "error")

\* fetch_and_save, lines 79-101: one PlayerGameLog request and what follows
PlayoffTaskRequest(i) ==
    /\ script = "playoff" /\ pc = "collect"
    /\ i \in 1..Len(tasks) /\ tasks[i].st = "req"
    /\ \E out \in Outcomes :
         LET t == tasks[i]
             path == CsvPath(t.season, t.name)
         IN  /\ tasks' = [tasks EXCEPT ![i] = AfterAttempt(t, out)]
             /\ IF out = "ok"
                THEN /\ fs' = WriteFile(fs, path, find_player_id(t.name))
                     /\ writers' = AddWriter(writers, path, <<si, i>>)
                ELSE UNCHANGED <<fs, writers>>
    /\ UNCHANGED <<upVars, script, pc, rosterFile, seasons, queue, si, failLog, submitted,
                   processed, results, report>>

\* Mutant: everything that did not download is logged, skipped files too
IsMiss_LogsAlready(t) == t.status # "ok"

\* Mutant: an empty game log is not logged as a miss
IsMiss_SkipsEmpty(t) == ~t.ok /\ t.status \notin {"already", "empty"}

\* the condition of line 165
IsMiss(t) == ~t.ok /\ t.status # "already"

\* main, lines 163-166: as_completed yields a finished future
PlayoffCollect(i) ==
    /\ script = "playoff" /\ pc = "collect"
    /\ i \in 1..Len(tasks) /\ tasks[i].st = "done" /\ ~tasks[i].collected
    /\ tasks' = [tasks EXCEPT ![i].collected = TRUE]
    /\ failLog' = IF IsMiss(tasks[i])
                  THEN Append(failLog, [season |-> queue[si], player |-> tasks[i].name,
                                        status |-> tasks[i].status, by |-> "main",
                                        task |-> <<si, i>>])
                  ELSE failLog
    /\ results' = Append(results, [task |-> <<si, i>>, season |-> queue[si],
                                    player |-> tasks[i].name, ok |-> tasks[i].ok,
                                    status |-> tasks[i].status])
    /\ UNCHANGED <<upVars, script, pc, rosterFile, seasons, queue, si, fs, writers, submitted,
                   processed, report>>

\* end of the with-block: every future was yielded
PlayoffPoolExit ==
    /\ script = "playoff" /\ pc = "collect"
    /\ \A i \in 1..Len(tasks) : tasks[i].collected
    /\ si' = si + 1
    /\ pc' = "season"
    /\ UNCHANGED <<upVars, script, rosterFile, seasons, queue, tasks, fs, writers, failLog,
                   submitted, processed, results, report>>

\* main, lines 168-170
PlayoffFinish ==
    /\ script = "playoff" /\ pc = "season" /\ si > Len(queue)
    /\ pc' = "done"
    /\ UNCHANGED <<upVars, script, rosterFile, seasons, queue, si, tasks, fs, writers, failLog,
                   submitted, processed, results, report>>

\* Contents of the output directory before the run
OldCsv == "old"
InitialDirs ==
    {<<>>, [p \in {<<SeasonStr(2024), slugify(NameBe)>>} |-> OldCsv]}

InitPlayoff ==
    /\ script = "playoff"
    /\ pc = "start"
    /\ rosterFile = <<>>
    /\ seasons = <<>> /\ queue = <<>> /\ si = 1 /\ tasks = <<>>
    /\ fs \in InitialDirs
    /\ writers = <<>>
    /\ failLog = <<>> /\ submitted = <<>> /\ processed = <<>> /\ results = <<>>
    /\ report = <<>>
    /\ UpIdle

NextPlayoff ==
    \/ PlayoffStart
    \/ PlayoffSubmit
    \/ \E i \in 1..Len(tasks) : PlayoffTaskStart(i)
    \/ \E i \in 1..Len(tasks) : PlayoffTaskRequest(i)
    \/ \E i \in 1..Len(tasks) : PlayoffCollect(i)
    \/ PlayoffPoolExit
    \/ PlayoffFinish

SpecPlayoff == InitPlayoff /\ [][NextPlayoff]_vars

----------------------------------------------------------------------------
(* fetch_game_logs.py *)

\* main, lines 114-118: for year in range(2022, 2009, -1), keep the
\* formatted season when the roster has it
RECURSIVE TargetFrom(_, _)
TargetFrom(year, dict) ==
    IF year <= 2009 THEN <<>>
    ELSE (IF SeasonStr(year) \in Keys(dict) THEN <<SeasonStr(year)>> ELSE <<>>)
         \o TargetFrom(year - 1, dict)

target_seasons(dict) == TargetFrom(2022, dict)

\* main, lines 109-118
GameLogsStart ==
    /\ script = "gamelogs" /\ pc = "start"
    /\ rosterFile' \in SeqsUpTo(RosterLines(GameLogHeaders), MaxLines)
    /\ seasons' = parse_roster_txt_gamelogs(rosterFile')
    /\ queue' = target_seasons(seasons')
    /\ si' = 1
    /\ pc' = "season"
    /\ UNCHANGED <<upVars, script, tasks, fs, writers, failLog, submitted, processed,
                   results, report>>

\* main, lines 120-128: next target season, one fetch_save task per name
GameLogsSubmit ==
    /\ script = "gamelogs" /\ pc = "season" /\ si <= Len(queue)
    /\ LET season == queue[si]
           roster == Lookup(seasons, season)
       IN  /\ tasks' = [i \in 1..Len(roster) |-> NewTask(roster[i], season)]
           /\ submitted' = submitted \o [i \in 1..Len(roster) |-> <<season, roster[i]>>]
           /\ processed' = Append(processed, season)
    /\ pc' = "collect"
    /\ UNCHANGED <<upVars, script, rosterFile, seasons, queue, si, fs, writers, failLog, results,
                   report>>

\* fetch_save, lines 78-81: polite sleep, id lookup
GameLogsTaskStart(i) ==
    /\ script = "gamelogs" /\ pc = "collect"
    /\ CanStart(tasks, i)
    /\ tasks' = [tasks EXCEPT ![i] =
          IF find_player_id(tasks[i].name) = NoId
          THEN Finish(tasks[i], FALSE, "Player ID not found")
          ELSE [tasks[i] EXCEPT !.st = "req", !.attempt = 1]]
    /\ UNCHANGED <<upVars, script, pc, rosterFile, seasons, queue, si, fs, writers, failLog,
                   submitted, processed, results, report>>

\* fetch_save, lines 82-96: the single request; every exception is a failure
GameLogsAfterAttempt(t, out) ==
    LET u == [t EXCEPT !.hist = Append(@, out)] IN
    CASE out = "ok" -> Finish(u, TRUE, "")
      [] out = "empty" -> Finish(u, FALSE, "Empty log")
      [] OTHER -> Finish(u, FALSE, "error")

GameLogsTaskRequest(i) ==
    /\ script = "gamelogs" /\ pc = "collect"
    /\ i \in 1..Len(tasks) /\ tasks[i].st = "req"
    /\ \E out \in Outcomes :
         LET t == tasks[i]
             path == CsvPath(t.season, t.name)
         IN  /\ tasks' = [tasks EXCEPT ![i] = GameLogsAfterAttempt(t, out)]
             /\ IF out = "ok"
                THEN /\ fs' = WriteFile(fs, path, find_player_id(t.name))
                     /\ writers' = AddWriter(writers, path, <<si, i>>)
                ELSE UNCHANGED <<fs, writers>>
    /\ UNCHANGED <<upVars, script, pc, rosterFile, seasons, queue, si, failLog, submitted,
                   processed, results, report>>

\* failures = [f.result() for f in futures if not f.result()[1]]
RECURSIVE Failures(_)
Failures(ts) ==
    IF ts = <<>> THEN <<>>
    ELSE (IF ts[1].ok THEN <<>> ELSE <<[name |-> ts[1].name, msg |-> ts[1].status]>>)
         \o Failures(Tail(ts))

\* main, lines 129-137: all futures completed, the pool closes, the
\* failures of the season are reported
GameLogsPoolExit ==
    /\ script = "gamelogs" /\ pc = "collect"
    /\ \A i \in 1..Len(tasks) : tasks[i].st = "done"
    /\ report' = Append(report, [season |-> queue[si], failures |-> Failures(tasks)])
    /\ si' = si + 1
    /\ pc' = "season"
    /\ UNCHANGED <<upVars, script, rosterFile, seasons, queue, tasks, fs, writers, failLog,
                   submitted, processed, results>>

\* main, line 139
GameLogsFinish ==
    /\ script = "gamelogs" /\ pc = "season" /\ si > Len(queue)
    /\ pc' = "done"
    /\ UNCHANGED <<upVars, script, rosterFile, seasons, queue, si, tasks, fs, writers, failLog,
                   submitted, processed, results, report>>

InitGameLogs ==
    /\ script = "gamelogs"
    /\ pc = "start"
    /\ rosterFile = <<>>
    /\ seasons = <<>> /\ queue = <<>> /\ si = 1 /\ tasks = <<>>
    /\ fs = <<>>
    /\ writers = <<>>
    /\ failLog = <<>> /\ submitted = <<>> /\ processed = <<>> /\ results = <<>>
    /\ report = <<>>
    /\ UpIdle

NextGameLogs ==
    \/ GameLogsStart
    \/ GameLogsSubmit
    \/ \E i \in 1..Len(tasks) : GameLogsTaskStart(i)
    \/ \E i \in 1..Len(tasks) : GameLogsTaskRequest(i)
    \/ GameLogsPoolExit
    \/ GameLogsFinish

SpecGameLogs == InitGameLogs /\ [][NextGameLogs]_vars

----------------------------------------------------------------------------
(* player-bios/fetch_player_bio.py   (script = "bio") *)

\* ord(c) of the characters that occur in roster lines
CodePoint(c) ==
    CASE c = " " -> 32 [] c = "-" -> 45 [] c = "." -> 46 [] c = "=" -> 61
      [] c \in Digit -> 48 + DigitVal(c)
      [] c = "b" -> 98 [] c = "e" -> 101 [] c = "x" -> 120 [] c = "z" -> 122
      [] c = "é" -> 233
      [] OTHER -> 0

\* a < b for two str values
RECURSIVE TextLess(_, _)
TextLess(a, b) ==
    IF b = <<>> THEN FALSE
    ELSE IF a = <<>> THEN TRUE
    ELSE IF a[1] = b[1] THEN TextLess(Tail(a), Tail(b))
    ELSE CodePoint(a[1]) < CodePoint(b[1])

\* sorted(set(names))
RECURSIVE InsertSorted(_, _)
InsertSorted(sorted, x) ==
    IF sorted = <<>> THEN <<x>>
    ELSE IF sorted[1] = x THEN sorted
    ELSE IF TextLess(x, sorted[1]) THEN <<x>> \o sorted
    ELSE <<sorted[1]>> \o InsertSorted(Tail(sorted), x)

RECURSIVE SortedSet(_)
SortedSet(s) ==
    IF s = <<>> THEN <<>>
    ELSE InsertSorted(SortedSet(SubSeq(s, 1, Len(s) - 1)), s[Len(s)])

\* the names list of parse_roster_txt before sorted(set(...))
RECURSIVE BioNameLines(_)
BioNameLines(lines) ==
    IF lines = <<>> THEN <<>>
    ELSE LET ln == StripWs(lines[1])
         IN  (IF ln # <<>> /\ ~StartsWith(ln, "=") /\ ~StartsWith(ln, "Season:")
              THEN <<ln>> ELSE <<>>) \o BioNameLines(Tail(lines))

\* fetch_player_bio.parse_roster_txt
parse_roster_txt_bio(lines) == SortedSet(BioNameLines(lines))

\* player_id_from_name: the id of the exact or first hit, None without a hit
player_id_from_name(full_name) ==
    CASE full_name = NameBe -> "p1"
      [] full_name = NameBeDot -> "p2"
      [] OTHER -> NoId

\* Lines of the bio script's roster file
PaddedNameZ == <<" ">> \o NameZ
BioRosterLines ==
    {HeaderLine(SeasonStr(2024)), SeparatorLine, <<>>, PaddedNameZ, NameBe, NameBeDot}

\* Files of --outdir
MasterCsv == <<"player_bio_master.csv">>
FailedBio == <<"failed_bio.txt">>
RawJson(name) == <<"raw_json", slugify(name)>>

BioRow(name) == [Player |-> name, Player_ID |-> player_id_from_name(name)]
FailLine(name, status) == [name |-> name, status |-> status]

\* Contents of --outdir before the run: nothing, or what an earlier run on
\* another roster left
OldMaster == <<[Player |-> <<"x">>, Player_ID |-> "p9"]>>
OldFailed == <<FailLine(<<"x">>, "no_id")>>
InitialBioDirs ==
    {<<>>, [p \in {MasterCsv, FailedBio} |-> IF p = MasterCsv THEN OldMaster ELSE OldFailed]}

\* open(path, "a"): the file is created when it does not exist
OpenAppend(dir, path) == IF path \in DOMAIN dir THEN dir ELSE WriteFile(dir, path, <<>>)

\* main, lines 125-136: parse the roster, open failed_bio.txt for appending,
\* submit one fetch_bio task per name
BioStart ==
    /\ script = "bio" /\ pc = "start"
    /\ rosterFile' \in SeqsUpTo(BioRosterLines, MaxLines)
    /\ queue' = parse_roster_txt_bio(rosterFile')
    /\ fs' = OpenAppend(fs, FailedBio)
    /\ tasks' = [i \in 1..Len(queue') |-> NewTask(queue'[i], <<>>)]
    /\ submitted' = [i \in 1..Len(queue') |-> queue'[i]]
    /\ pc' = "collect"
    /\ UNCHANGED <<upVars, script, seasons, si, writers, failLog, processed, results, report>>

\* fetch_bio, lines 75-80: id lookup, polite sleep
BioTaskStart(i) ==
    /\ script = "bio" /\ pc = "collect"
    /\ CanStart(tasks, i)
    /\ tasks' = [tasks EXCEPT ![i] =
          IF player_id_from_name(tasks[i].name) = NoId
          THEN Finish(tasks[i], FALSE, "no_id")
          ELSE [tasks[i] EXCEPT !.st = "req", !.attempt = 1]]
    /\ UNCHANGED <<upVars, script, pc, rosterFile, seasons, queue, si, fs, writers, failLog,
                   submitted, processed, results, report>>

\* What the CommonPlayerInfo request of fetch_bio can do: a row, a time-out,
\* or another exception (df.iloc[0] of an empty frame raises IndexError)
BioOutcomes == {"ok", "timeout", "error"}

\* fetch_bio, lines 82-114
BioAfterAttempt(t, out) ==
    LET u == [t EXCEPT !.hist = Append(@, out)] IN
    CASE out = "ok" -> Finish(u, TRUE, "ok")
      [] out = "timeout" -> Finish(u, FALSE, "timeout")
      [] OTHER -> Finish(u, FALSE, "error")

\* fetch_bio, lines 82-114: the single CommonPlayerInfo request; a success
\* writes raw_json/<slug>.json
BioTaskRequest(i) ==
    /\ script = "bio" /\ pc = "collect"
    /\ i \in 1..Len(tasks) /\ tasks[i].st = "req"
    /\ \E out \in BioOutcomes :
         /\ tasks' = [tasks EXCEPT ![i] = BioAfterAttempt(tasks[i], out)]
         /\ IF out = "ok"
            THEN /\ fs' = WriteFile(fs, RawJson(tasks[i].name), player_id_from_name(tasks[i].name))
                 /\ writers' = AddWriter(writers, RawJson(tasks[i].name), <<1, i>>)
            ELSE UNCHANGED <<fs, writers>>
    /\ UNCHANGED <<upVars, script, pc, rosterFile, seasons, queue, si, failLog, submitted,
                   processed, results, report>>

\* main, lines 137-143: as_completed yields a finished future
BioCollect(i) ==
    /\ script = "bio" /\ pc = "collect"
    /\ i \in 1..Len(tasks) /\ tasks[i].st = "done" /\ ~tasks[i].collected
    /\ tasks' = [tasks EXCEPT ![i].collected = TRUE]
    /\ IF tasks[i].ok
       THEN /\ results' = Append(results, BioRow(tasks[i].name))
            /\ UNCHANGED failLog
       ELSE /\ failLog' = Append(failLog, FailLine(tasks[i].name, tasks[i].status))
            /\ UNCHANGED results
    /\ UNCHANGED <<upVars, script, pc, rosterFile, seasons, queue, si, fs, writers, submitted,
                   processed, report>>

\* main, lines 145-152: close the log (its lines follow the lines the file
\* had), write the master CSV when there are results, print the summary
BioFinish ==
    /\ script = "bio" /\ pc = "collect"
    /\ \A i \in 1..Len(tasks) : tasks[i].collected
    /\ LET closed == WriteFile(fs, FailedBio, fs[FailedBio] \o failLog)
       IN  /\ fs' = IF results # <<>> THEN WriteFile(closed, MasterCsv, results) ELSE closed
           /\ report' = <<[saved |-> Len(results), failures |-> Len(closed[FailedBio])]>>
    /\ pc' = "done"
    /\ UNCHANGED <<upVars, script, rosterFile, seasons, queue, si, tasks, writers, failLog,
                   submitted, processed, results>>

InitBio ==
    /\ script = "bio"
    /\ pc = "start"
    /\ rosterFile = <<>>
    /\ seasons = <<>> /\ queue = <<>> /\ si = 1 /\ tasks = <<>>
    /\ fs \in InitialBioDirs
    /\ writers = <<>>
    /\ failLog = <<>> /\ submitted = <<>> /\ processed = <<>> /\ results = <<>>
    /\ report = <<>>
    /\ UpIdle

NextBio ==
    \/ BioStart
    \/ \E i \in 1..Len(tasks) : BioTaskStart(i)
    \/ \E i \in 1..Len(tasks) : BioTaskRequest(i)
    \/ \E i \in 1..Len(tasks) : BioCollect(i)
    \/ BioFinish

SpecBio == InitBio /\ [][NextBio]_vars

----------------------------------------------------------------------------
(* One run of any of the scripts *)

Init == InitPlayoff \/ InitGameLogs \/ InitUpload \/ InitBio

Next == NextPlayoff \/ NextGameLogs \/ NextUpload \/ NextBio

Spec == Init /\ [][Next]_vars

\* Every HTTP call returns or times out and every thread gets to run: a run
\* that can take a step eventually takes one
FairSpec == Spec /\ WF_vars(Next)

----------------------------------------------------------------------------
(* Claims about fetch_playoff_logs.py *)

TaskIds == {i \in 1..Len(tasks) : TRUE}
LinesOf(id) == {k \in 1..Len(failLog) : failLog[k].task = id}
ResultsOf(id) == {k \in 1..Len(results) : results[k].task = id}

\* C4: no two worker tasks of one pool write the same output file path
C4_NoSharedPath ==
    \A p \in DOMAIN writers : Cardinality(writers[p]) <= 1

\* C6 (state part): a task that found its CSV present returned
\* (player, True, 'already'), issued no request, wrote no file and has no
\* line in the failure log
C6_SkippedState ==
    \A i \in TaskIds :
        tasks[i].status = "already" =>
            /\ tasks[i].st = "done" /\ tasks[i].ok
            /\ tasks[i].hist = <<>>
            /\ \A p \in DOMAIN writers : <<si, i>> \notin writers[p]
            /\ LinesOf(<<si, i>>) = {}

\* C6 (step part): the step in which fetch_and_save finds its CSV present
\* ends the task with 'already' and leaves the output directory unchanged
C6_SkippedStep ==
    \A i \in TaskIds :
        (/\ pc = "collect" /\ pc' = "collect"
         /\ tasks[i].st = "queued" /\ tasks'[i].st # "queued"
         /\ CsvPath(tasks[i].season, tasks[i].name) \in DOMAIN fs)
        => /\ tasks'[i].status = "already" /\ tasks'[i].ok /\ tasks'[i].st = "done"
           /\ tasks'[i].hist = <<>>
           /\ fs' = fs /\ failLog' = failLog

\* C6: fetch_playoff_logs.py skips files that already exist: no request, file
\* unchanged, result (player, True, 'already'), no line in the failure log
C6_SkipsExisting == [][C6_SkippedStep]_vars /\ [](C6_SkippedState)

C6_Witness ==
    \E i \in TaskIds : tasks[i].status = "already" /\ tasks[i].collected

\* C7: fetch_and_save issues a second request iff the first timed out, never
\* a third; an empty result or another exception ends the task; two
\* time-outs give (player, False, 'timeout')
C7_RetryOnceOnTimeout ==
    \A i \in TaskIds :
        LET t == tasks[i] IN
        /\ Len(t.hist) <= 2
        /\ (Len(t.hist) = 2 => t.hist[1] = "timeout")
        /\ (Len(t.hist) = 1 /\ t.hist[1] = "timeout" => t.st = "req" /\ t.attempt = 2)
        /\ (\A k \in 1..Len(t.hist) :
                t.hist[k] \in {"empty", "error"} => k = Len(t.hist) /\ t.st = "done" /\ ~t.ok)
        /\ (t.hist = <<"timeout", "timeout">> => t.st = "done" /\ ~t.ok /\ t.status = "timeout")

C7_Witness ==
    /\ \E i \in TaskIds : tasks[i].hist = <<"timeout", "timeout">>
    /\ \E i \in TaskIds : tasks[i].hist = <<"timeout", "error">>

\* C8: every task result that main has received has exactly one line
\* season, player, status in the failure log when its success flag is False
\* and none when it is True; nothing else is in the log, every line is
\* written by main, and at the end every submitted task has been received
C8_EveryMissLogged ==
    /\ \A k \in 1..Len(results) :
          LET r == results[k] IN
          /\ Cardinality(ResultsOf(r.task)) = 1
          /\ Cardinality(LinesOf(r.task)) = (IF r.ok THEN 0 ELSE 1)
          /\ \A n \in LinesOf(r.task) :
                /\ failLog[n].season = r.season /\ failLog[n].player = r.player
                /\ failLog[n].status = r.status
    /\ \A n \in 1..Len(failLog) :
          failLog[n].by = "main" /\ ResultsOf(failLog[n].task) # {}
    /\ (pc = "done" => Len(results) = Len(submitted))

C8_Witness ==
    /\ pc = "done"
    /\ \E k \in 1..Len(results) : results[k].status = "empty"
    /\ \E k \in 1..Len(results) : results[k].status = "ok"
    /\ Len(failLog) = 1

\* Start year as the claim reads it from the header text
HasStartYear(h, y) ==
    LET d == IntToStr(y) IN
    /\ Len(h) >= Len(d) /\ SubSeq(h, 1, Len(d)) = d
    /\ (Len(h) = Len(d) \/ h[Len(d) + 1] = "-")

InRange2015to2024(h) == \E y \in 2015..2024 : HasStartYear(h, y)

YearOf(h) == CHOOSE y \in 2015..2024 : HasStartYear(h, y)

FileHeaders == {h \in PlayoffHeaders : HeaderLine(h) \in Range(rosterFile)}

\* C9: tasks are submitted only for roster seasons starting in 2015..2024,
\* the seasons are processed in non-increasing order of start year, and at
\* the end exactly those seasons of the roster have been processed
C9_SeasonsBackward ==
    /\ \A k \in 1..Len(processed) : processed[k] \in FileHeaders /\ InRange2015to2024(processed[k])
    /\ \A k \in 1..Len(submitted) : submitted[k][1] \in Range(processed)
    /\ \A j, k \in 1..Len(processed) : j < k => YearOf(processed[j]) >= YearOf(processed[k])
    /\ (pc = "done" => Range(processed) = {h \in FileHeaders : InRange2015to2024(h)})

C9_Witness ==
    /\ pc = "done"
    /\ processed = <<SeasonStr(2024), SeasonStr(2015)>>
    /\ rosterFile[1] = HeaderLine(SeasonStr(2015))
    /\ submitted # <<>>

----------------------------------------------------------------------------
(* Claims about fetch_game_logs.py *)

IsHeaderLine(ln) == StartsWith(ln, "Season:")
IsPlayerLine(ln) == ln \in RosterNames

\* Player lines that stand under a season header, with that header
PlayerLines == {j \in 1..Len(rosterFile) :
                  IsPlayerLine(rosterFile[j]) /\ \E h \in 1..(j - 1) : IsHeaderLine(rosterFile[h])}
HeaderOf(j) ==
    LET h == CHOOSE h \in 1..(j - 1) :
                /\ IsHeaderLine(rosterFile[h])
                /\ \A g \in (h + 1)..(j - 1) : ~IsHeaderLine(rosterFile[g])
    IN  SubSeq(rosterFile[h], 3, Len(rosterFile[h]))

\* C10: at the end of fetch_game_logs.py one fetch_save task has been run for
\* every player line under every season header of the roster file, and the
\* CSV of every successful task is in the output directory
C10_EveryRosterSeasonFetched ==
    pc = "done" =>
        /\ Len(submitted) = Cardinality(PlayerLines)
        /\ \A j \in PlayerLines : <<HeaderOf(j), rosterFile[j]>> \in Range(submitted)
        /\ \A p \in DOMAIN writers : p \in DOMAIN fs

----------------------------------------------------------------------------
(* Claims about all scripts *)

Terminated ==
    /\ pc \in {"done", "crashed"}
    /\ \A i \in 1..Len(tasks) : tasks[i].st = "done"
    /\ call.st # "loop"

\* C1: every run of a script terminates: main reaches its end with every
\* submitted task completed and no request loop running
C1_Terminates == <>Terminated

C1_Witness ==
    /\ Terminated /\ script = "upload" /\ pc = "done"
    /\ Len(dirLog) >= 2 /\ ~dirLog[1]
    /\ successCount > 0

NonDecreasing(w) == \A j, k \in 1..Len(w) : j < k => w[j] <= w[k]
AllEqual(w) == \A j, k \in 1..Len(w) : w[j] = w[k]

\* C2 as claimed: a logical fetch makes at most two HTTP attempts and the
\* wait before a retry is one fixed interval
C2_RetriedAtMostOnce ==
    /\ \A i \in 1..Len(tasks) : Len(tasks[i].hist) <= 2 /\ AllEqual(tasks[i].waits)
    /\ call.attempts <= 2 /\ AllEqual(call.waits)

\* C2 as amended: fetch_and_save makes at most two attempts with a fixed
\* 60 s wait between them; _make_api_request with max_retries = 3 makes at
\* most four attempts and its waits start at rate_limit_wait or above and
\* never shrink
C2_BoundedRetries ==
    /\ \A i \in 1..Len(tasks) :
          /\ Len(tasks[i].hist) <= 2
          /\ Len(tasks[i].waits) <= 1
          /\ \A k \in 1..Len(tasks[i].waits) : tasks[i].waits[k] = RetrySleep
    /\ call.attempts <= max_retries + 1
    /\ NonDecreasing(call.waits)
    /\ \A k \in 1..Len(call.waits) : call.waits[k] >= rate_limit_wait(script)

C2_Witness ==
    /\ call.st = "ret" /\ call.attempts = max_retries + 1
    /\ Len(call.waits) >= 3 /\ call.waits[1] < call.waits[3]

----------------------------------------------------------------------------
(* Claims about the uploader scripts *)

DirectoryCallOpen == call.st # "idle" /\ call.ep = "directory"
FetchLookups == {k \in 1..Len(lookups) : lookups[k] = "fetch"}

\* C3 as claimed: one directory fetch per run, whatever the preload did, and
\* every name lookup served from that list
C3_DirectoryFetchedOnce ==
    /\ Len(dirLog) + (IF DirectoryCallOpen THEN 1 ELSE 0) <= 1
    /\ \A k \in 1..Len(lookups) : lookups[k] = "cache"

\* C3 as amended: the directory is fetched by the preload and by every name
\* lookup made while the cache is empty (one fetch each, as long as the run
\* is not aborted); a fetch that fills the cache is the last fetch of the run
\* and every later lookup uses the cached list
C3_FetchedUntilFilled ==
    /\ \A k \in 1..(Len(dirLog) - 1) : ~dirLog[k]
    /\ (DirectoryCallOpen => \A k \in 1..Len(dirLog) : ~dirLog[k])
    /\ (cache.filled <=> (dirLog # <<>> /\ dirLog[Len(dirLog)]))
    /\ (pc # "start" /\ names # <<>> /\ aborts = <<>> =>
            Len(dirLog) + (IF DirectoryCallOpen THEN 1 ELSE 0) = 1 + Cardinality(FetchLookups))
    /\ \A k \in 1..Len(lookups) :
            lookups[k] = "cache" => \A j \in k..Len(lookups) : lookups[j] = "cache"
    /\ ((\E k \in 1..Len(lookups) : lookups[k] = "cache") => cache.filled)

C3_Witness ==
    /\ dirLog = <<FALSE, TRUE>>
    /\ lookups = <<"fetch", "cache">>

\* C5: when the first run was aborted while a player was being processed and
\* the second run completed, every player of players.txt is in
\* processed_players or was counted in fail_count
C5_ResumeLosesNoPlayer ==
    (/\ script = "upload" /\ run = 2 /\ pc = "done"
     /\ Len(aborts) = 1 /\ aborts[1].run = 1 /\ aborts[1].during # "loop")
    => \A j \in 1..Len(names) :
          \/ \E k \in 1..Len(processedPlayers) : processedPlayers[k].name = names[j]
          \/ j \in counted

----------------------------------------------------------------------------
(* Claims about fetch_player_bio.py *)

MasterRows == IF MasterCsv \in DOMAIN fs THEN fs[MasterCsv] ELSE <<>>

\* C11: every roster name is fetched exactly once, and after the run
\* player_bio_master.csv holds exactly one row for each name whose fetch
\* succeeded in this run and no other row, whatever the directory held before
C11_OneRowPerPlayer ==
    (script = "bio" /\ pc = "done") =>
        /\ \A i, j \in 1..Len(tasks) : tasks[i].name = tasks[j].name => i = j
        /\ \A i \in 1..Len(tasks) :
              tasks[i].ok =>
                Cardinality({k \in 1..Len(MasterRows) : MasterRows[k].Player = tasks[i].name}) = 1
        /\ \A k \in 1..Len(MasterRows) :
              \E i \in 1..Len(tasks) : tasks[i].ok /\ MasterRows[k].Player = tasks[i].name

\* C15: 'Bio rows saved' plus 'failures logged' is the number of distinct
\* names of the roster, whatever the directory held before
C15_SummaryAccountsForAll ==
    (script = "bio" /\ pc = "done") =>
        report[1].saved + report[1].failures = Len(queue)

----------------------------------------------------------------------------
(* Claims about SupabaseUploader *)

NoTime(row) == [row EXCEPT !.updated_at = <<>>]
NoTimeRows(rows) == [k \in 1..Len(rows) |-> NoTime(rows[k])]

C12_OneRowPerId ==
    \A t \in Tables : \A j, k \in 1..Len(db[t]) :
        db[t][j].player_id = db[t][k].player_id => j = k

\* a step that puts a row into table t whose record the table already holds
\* leaves the table as it was, the timestamp apart
C12_SameRecordStep ==
    \A t \in Tables : \A k \in 1..Len(db'[t]) :
        (/\ db'[t][k] \notin Range(db[t])
         /\ \E j \in 1..Len(db[t]) : NoTime(db[t][j]) = NoTime(db'[t][k]))
        => NoTimeRows(db'[t]) = NoTimeRows(db[t])

\* C12: every remote table holds at most one row per player_id, and storing
\* a record the table already holds leaves the table in the same state,
\* ignoring updated_at
C12_UpsertKeyed == [](C12_OneRowPerId) /\ [][C12_SameRecordStep]_vars

C12_Witness ==
    /\ lastStore.table \in Tables
    /\ Len(lastStore.had) = 1
    /\ NoTime(lastStore.had[1]) = NoTime(lastStore.row)
    /\ lastStore.had[1].updated_at # lastStore.row.updated_at
    /\ db[lastStore.table] = <<lastStore.row>>

----------------------------------------------------------------------------
(* Claims about NBADataFetcher._make_api_request *)

\* this step issues an HTTP request
IsRequestStep == call'.attempts = call.attempts + 1

\* the time slept between the fetcher's previous request and the request of
\* this step
SleptBeforeRequest == lastRequest.slept + (IF call.attempts = 0 THEN call.pre ELSE 0)

C13_Step ==
    (IsRequestStep /\ lastRequest.any) => SleptBeforeRequest >= rate_limit_wait(script)

\* C13: in both uploader scripts two consecutive HTTP requests of the fetcher
\* are separated by a sleep of at least rate_limit_wait
C13_PoliteDelay == [][C13_Step]_vars

Succeeded(out) == out \in {"rows", "empty"}

\* the give-up of line 125: a 500 on a retry of a call made with
\* skip_500_retry
GaveUpOn500 == script = "upload" /\ call.skip /\ call.last = "s500" /\ call.attempts >= 2

\* C14: one call of _make_api_request issues at most max_retries + 1
\* requests; it returns the JSON of the first attempt that succeeds, all
\* attempts before it having failed, and None when max_retries + 1 attempts
\* failed
C14_AtMostMaxRetriesPlusOne ==
    /\ call.attempts <= max_retries + 1
    /\ call.st = "loop" => call.retries = call.attempts /\ call.attempts <= max_retries
    /\ call.st = "ret" =>
          /\ Succeeded(call.last) =>
                call.result = call.last /\ call.retries = call.attempts - 1
          /\ ~Succeeded(call.last) =>
                /\ call.result = "none"
                /\ call.retries = call.attempts \/ GaveUpOn500
                /\ call.attempts = max_retries + 1 \/ GaveUpOn500

C14_Witness ==
    /\ call.st = "ret" /\ call.attempts = max_retries + 1 /\ call.result = "rows"
    /\ Len(call.waits) = max_retries

C16_Step ==
    (/\ script = "upload" /\ call.skip
     /\ call.attempts = 0 /\ IsRequestStep /\ call'.last = "s500")
    => call'.st = "ret" /\ call'.result = "none"

\* C16: when the first attempt of a call made with skip_500_retry=True gets
\* status 500, the call returns None without a second request
C16_First500NotRetried == [][C16_Step]_vars

C17_Step ==
    (IsRequestStep /\ call'.last = "s429" /\ call'.st = "loop")
    => SleptInPass(call, call') >= RateLimitedFloor

\* C17: after an attempt that failed with status 429, when a retry remains,
\* the sleep before the next attempt is at least 10 seconds
C17_RateLimitedWaitsTenSeconds == [][C17_Step]_vars

\* C18: in nba_player_upload.py every wait before a retry is at least double
\* the wait before the previous retry of the same call
C18_ExponentialBackoff ==
    script = "upload" =>
        \A k \in 2..Len(call.waits) : call.waits[k] >= 2 * call.waits[k - 1]

----------------------------------------------------------------------------
(* Claims about parse_roster_txt *)

\* The lines that the roster file lists under the headers of season key:
\* stripped, in file order, blank lines and lines starting with "=" left out;
\* cur = [set, key] is the header the scan is under
RECURSIVE ListedUnder(_, _, _)
ListedUnder(lines, cur, key) ==
    IF lines = <<>> THEN <<>>
    ELSE LET ln == StripWs(lines[1]) IN
         IF StartsWith(ln, "Season:")
         THEN ListedUnder(Tail(lines), [set |-> TRUE, key |-> StripWs(AfterSeasonToken(ln))], key)
         ELSE (IF cur.set /\ cur.key = key /\ ln # <<>> /\ ~StartsWith(ln, "=")
               THEN <<ln>> ELSE <<>>) \o ListedUnder(Tail(lines), cur, key)

\* C19: parse_roster_txt returns, for every season of the file, the player
\* lines that follow a header of that season, in file order, also when the
\* header occurs more than once
C19_ParseRosterLists ==
    (script = "gamelogs" /\ pc # "start") =>
        \A j \in 1..Len(seasons) :
            seasons[j].players = ListedUnder(rosterFile, [set |-> FALSE, key |-> <<>>], seasons[j].key)

====
